---- MODULE Spec2Model ----
(***************************************************************************)
(* A model of fkesh's FileCacheService (src/src/service.rs): a file backed *)
(* key/value cache with a metadata companion file per item.  Every file    *)
(* system call of store and get is one step, so that the state between two *)
(* calls of one operation is a state of the model.                         *)
(***************************************************************************)
EXTENDS Integers, Sequences, FiniteSets, TLC

(* ------------------------------- bounds -------------------------------- *)
\* the clock runs over 0..MaxTime (seconds since the epoch)
MaxTime == 3
\* ttl_secs arguments are drawn from 0..MaxTtl
MaxTtl == 2
\* the values a caller stores are 1..MaxValue (the login of a Demo)
MaxValue == 2

Times == 0..MaxTime
Ttls == 0..MaxTtl
Values == 1..MaxValue

\* the callers; the sequential specification runs the first one only
Procs == {"p1", "p2"}
Caller == "p1"

\* the configuration of the service and the keys (namespace, name) in use
RootPath == <<"cache">>
InstanceName == "app"
Keys == {<<"n1", "a">>, <<"n2", "a">>}
\* the key of the single caller of the sequential specification
TheKey == <<"n1", "a">>

(* --------------------------- path derivation --------------------------- *)
CACHE_FILENAME_POSTFIX == "cache.json"
METADATA_FILENAME_POSTFIX == "cache-metadata.json"

get_cache_item_path(root_path, instance_name, namespace) ==
    root_path \o <<instance_name>> \o <<namespace>>

get_filename(cache_item_name, postfix) ==
    cache_item_name \o "-" \o postfix

get_cache_file_path(cache_item_path, cache_item_name) ==
    Append(cache_item_path, cache_item_name)

ItemDir(k) == get_cache_item_path(RootPath, InstanceName, k[1])

\* variant: the metadata is kept as the cache file of the name with "-metadata"
MetadataPath_AsCacheFile(k) ==
    get_cache_file_path(ItemDir(k),
                        get_filename(k[2] \o "-metadata", CACHE_FILENAME_POSTFIX))

MetadataPath(k) ==
    get_cache_file_path(ItemDir(k), get_filename(k[2], METADATA_FILENAME_POSTFIX))

FilePath(k) ==
    get_cache_file_path(ItemDir(k), get_filename(k[2], CACHE_FILENAME_POSTFIX))

(* -------------------------------- codec -------------------------------- *)
\* The text of a file: a JSON object as its field names and their values in
\* order, or text that is no JSON at all.
JsonObject(names, vals) == [kind |-> "object", names |-> names, vals |-> vals]
InvalidJson == [kind |-> "invalid-json-data", names |-> <<>>, vals |-> <<>>]

HasField(text, name) ==
    /\ text.kind = "object"
    /\ \E i \in 1..Len(text.names) : text.names[i] = name

Field(text, name) ==
    text.vals[CHOOSE i \in 1..Len(text.names) : text.names[i] = name]

\* serde_json::to_string of a FileCacheItemMetadata
MetadataToJson(ttl_secs, created_unixtime) ==
    JsonObject(<<"ttl_secs", "created_unixtime">>, <<ttl_secs, created_unixtime>>)

\* serde_json::from_str::<FileCacheItemMetadata>
MetadataDecodes(text) ==
    HasField(text, "ttl_secs") /\ HasField(text, "created_unixtime")

MetadataFromJson(text) ==
    [ttl_secs |-> Field(text, "ttl_secs"),
     created_unixtime |-> Field(text, "created_unixtime")]

\* an item of a type whose serde_json::to_string fails (store takes any
\* impl Serialize)
Unencodable == MaxValue + 1

\* serde_json::to_string(item) is Ok
ItemEncodes(item) == item \in Values

\* serde_json::to_string of the caller's item (a Demo {login})
ItemToJson(item) == JsonObject(<<"login">>, <<item>>)

\* serde_json::from_str::<T> with T = Demo
ItemDecodes(text) == HasField(text, "login")

ItemFromJson(text) == Field(text, "login")

(* ----------------------------- file system ----------------------------- *)
VARIABLES
    dirs,      \* the directories that exist
    files,     \* the regular files that exist: path -> text
    clock,     \* the system clock, in seconds since the epoch
    service,   \* TRUE once FileCacheService::new has returned a service
    pc,        \* per caller: where it is in store or get
    arg,       \* per caller: the arguments of the call in progress
    loc,       \* per caller: the locals of the call in progress
    result,    \* per caller: what the call returned
    pre,       \* per caller: the file system when the call started (history)
    hist       \* per key: what happened to the key last (history)

vars == <<dirs, files, clock, service, pc, arg, loc, result, pre, hist>>

\* Path::exists
exists(path) == path \in dirs \/ path \in DOMAIN files

\* fs::create_dir_all: the directory and every missing ancestor below "/"
create_dir_all(ds, path) ==
    ds \cup {SubSeq(path, 1, n) : n \in 1..Len(path)}

\* fs::write succeeds when the parent directory exists and the path is not a
\* directory
can_write(path) ==
    /\ SubSeq(path, 1, Len(path) - 1) \in dirs
    /\ path \notin dirs

fs_write(fl, path, text) ==
    [q \in DOMAIN fl \cup {path} |-> IF q = path THEN text ELSE fl[q]]

\* fs::remove_file succeeds on an existing regular file
can_remove(path) == path \in DOMAIN files

fs_remove_file(fl, path) == [q \in DOMAIN fl \ {path} |-> fl[q]]

\* SystemTime::now().duration_since(UNIX_EPOCH): fails before the epoch
ClockOk == clock >= 0

(* ------------------------------- results ------------------------------- *)
NoResult == [tag |-> "pending", val |-> 0]
OkUnit == [tag |-> "Ok", val |-> 0]
OkNone == [tag |-> "None", val |-> 0]
OkSome(v) == [tag |-> "Some", val |-> v]
ErrIO == [tag |-> "IOError", val |-> 0]
ErrDefault == [tag |-> "Default", val |-> 0]
ErrEncoding == [tag |-> "EncodingError", val |-> 0]

NoArg == [op |-> "none", key |-> <<"", "">>, item |-> 0, ttl_secs |-> 0]
NoLoc == [now |-> 0, ttl_secs |-> 0, created_unixtime |-> 0, wrote |-> {}]
NoHist == [since |-> "never", item |-> 0, ttl_secs |-> 0, at |-> 0, prev |-> 0]
NoPre == [files |-> <<>>, dirs |-> {}, hist |-> NoHist]
Dirty == [since |-> "dirty", item |-> 0, ttl_secs |-> 0, at |-> 0, prev |-> 0]
Missed == [since |-> "missed", item |-> 0, ttl_secs |-> 0, at |-> 0, prev |-> 0]

(* -------------------------------- Init --------------------------------- *)
\* Before construction: the root directory exists or it does not.
Init ==
    /\ dirs \in {{}, {RootPath}}
    /\ files = <<>>
    /\ clock \in Times
    /\ service = FALSE
    /\ pc = [p \in Procs |-> "idle"]
    /\ arg = [p \in Procs |-> NoArg]
    /\ loc = [p \in Procs |-> NoLoc]
    /\ result = [p \in Procs |-> NoResult]
    /\ pre = [p \in Procs |-> NoPre]
    /\ hist = [k \in Keys |-> NoHist]

AllIdle == \A p \in Procs : pc[p] = "idle"

(* ---------------------- FileCacheService::new -------------------------- *)
NewCall(p) ==
    /\ AllIdle
    /\ pc' = [pc EXCEPT ![p] = "n_mkdir"]
    /\ arg' = [arg EXCEPT ![p] = [NoArg EXCEPT !.op = "new"]]
    /\ pre' = [pre EXCEPT ![p] = [files |-> files, dirs |-> dirs, hist |-> NoHist]]
    /\ UNCHANGED <<dirs, files, clock, service, loc, result, hist>>

\* variant: the service is returned without the directory being created
NewCreateDir_NoCreate(p) ==
    /\ pc[p] = "n_mkdir"
    /\ service' = TRUE
    /\ pc' = [pc EXCEPT ![p] = "done"]
    /\ result' = [result EXCEPT ![p] = OkUnit]
    /\ UNCHANGED <<dirs, files, clock, arg, loc, pre, hist>>

\* if !cache_root_path.exists() { fs::create_dir_all(cache_root_path)?; }
\* Ok(FileCacheService {..})
NewCreateDir(p) ==
    /\ pc[p] = "n_mkdir"
    /\ dirs' = IF ~exists(RootPath) THEN create_dir_all(dirs, RootPath) ELSE dirs
    /\ service' = TRUE
    /\ pc' = [pc EXCEPT ![p] = "done"]
    /\ result' = [result EXCEPT ![p] = OkUnit]
    /\ UNCHANGED <<files, clock, arg, loc, pre, hist>>

New(p) == NewCall(p) \/ NewCreateDir(p)

(* ------------------------------ the clock ------------------------------ *)
Tick ==
    /\ clock < MaxTime
    /\ clock' = clock + 1
    /\ UNCHANGED <<dirs, files, service, pc, arg, loc, result, pre, hist>>

\* the system clock is set back
ClockBack ==
    /\ \E t \in Times : t < clock /\ clock' = t
    /\ UNCHANGED <<dirs, files, service, pc, arg, loc, result, pre, hist>>

(* ---------------------- the end of a call ------------------------------- *)
Finish(p, res, h) ==
    /\ pc' = [pc EXCEPT ![p] = "done"]
    /\ result' = [result EXCEPT ![p] = res]
    /\ hist' = [hist EXCEPT ![arg[p].key] = h]

Goto(p, label) ==
    /\ pc' = [pc EXCEPT ![p] = label]
    /\ UNCHANGED <<result, hist>>

\* the caller takes the result; the next call starts from "idle"
Return(p) ==
    /\ pc[p] = "done"
    /\ pc' = [pc EXCEPT ![p] = "idle"]
    /\ arg' = [arg EXCEPT ![p] = NoArg]
    /\ loc' = [loc EXCEPT ![p] = NoLoc]
    /\ result' = [result EXCEPT ![p] = NoResult]
    /\ pre' = [pre EXCEPT ![p] = NoPre]
    /\ UNCHANGED <<dirs, files, clock, service, hist>>

\* history: the key holds what the store just completed wrote
StoredHist(p) ==
    LET h == pre[p].hist
    IN  [since |-> "stored", item |-> arg[p].item, ttl_secs |-> arg[p].ttl_secs,
         at |-> loc[p].now, prev |-> IF h.since = "stored" THEN h.item ELSE 0]

\* history: a hit leaves the record of the last store, a miss or an error ends it
GetHist(p, res) ==
    LET h == hist[arg[p].key]
    IN  IF res.tag = "Some" \/ h.since = "never" THEN h
        ELSE IF res = OkNone THEN Missed
        ELSE Dirty

(* ---------------------- FileCacheService::store ------------------------ *)
\* the statements of store that touch the file system or the clock, in the
\* order of the source
\* variant: the data file is replaced before the metadata is written
StoreOrder_DataFirst == <<"s_mkdir", "s_clock", "s_rmdata", "s_wdata", "s_wmeta">>

StoreOrder == <<"s_mkdir", "s_clock", "s_wmeta", "s_rmdata", "s_wdata">>

StorePosition(label) == CHOOSE i \in 1..Len(StoreOrder) : StoreOrder[i] = label

\* the statement is done: on to the next one, or Ok(()) after the last
StoreAdvance(p) ==
    IF StorePosition(pc[p]) = Len(StoreOrder)
    THEN Finish(p, OkUnit, StoredHist(p))
    ELSE Goto(p, StoreOrder[StorePosition(pc[p]) + 1])

StoreCall(p, k, item, ttl_secs) ==
    /\ service
    /\ pc[p] = "idle"
    /\ pc' = [pc EXCEPT ![p] = StoreOrder[1]]
    /\ arg' = [arg EXCEPT ![p] =
                 [op |-> "store", key |-> k, item |-> item, ttl_secs |-> ttl_secs]]
    /\ pre' = [pre EXCEPT ![p] =
                 [files |-> files, dirs |-> dirs, hist |-> hist[k]]]
    /\ hist' = [hist EXCEPT ![k] = Dirty]
    /\ UNCHANGED <<dirs, files, clock, service, loc, result>>

\* if !cache_item_path.exists() { fs::create_dir_all(&cache_item_path)?; }
StoreCreateDir(p) ==
    /\ pc[p] = "s_mkdir"
    /\ dirs' = IF ~exists(ItemDir(arg[p].key))
               THEN create_dir_all(dirs, ItemDir(arg[p].key))
               ELSE dirs
    /\ StoreAdvance(p)
    /\ UNCHANGED <<files, clock, service, arg, loc, pre>>

\* let now_unixtime = self.get_now_in_unixtime_secs()?;
StoreClock(p) ==
    /\ pc[p] = "s_clock"
    /\ IF ClockOk
       THEN /\ loc' = [loc EXCEPT ![p].now = clock]
            /\ StoreAdvance(p)
       ELSE /\ Finish(p, ErrDefault, Dirty)
            /\ UNCHANGED loc
    /\ UNCHANGED <<dirs, files, clock, service, arg, pre>>

\* variant: the metadata of an earlier store is kept
StoreWriteMetadata_KeepExisting(p) ==
    /\ pc[p] = "s_wmeta"
    /\ files' = IF exists(MetadataPath(arg[p].key))
                THEN files
                ELSE fs_write(files, MetadataPath(arg[p].key),
                              MetadataToJson(arg[p].ttl_secs, loc[p].now))
    /\ loc' = [loc EXCEPT ![p].wrote = @ \cup {"metadata"}]
    /\ StoreAdvance(p)
    /\ UNCHANGED <<dirs, clock, service, arg, pre>>

\* fs::write(&metadata_file_path, metadata_json)?;
StoreWriteMetadata(p) ==
    /\ pc[p] = "s_wmeta"
    /\ IF can_write(MetadataPath(arg[p].key))
       THEN /\ files' = fs_write(files, MetadataPath(arg[p].key),
                                 MetadataToJson(arg[p].ttl_secs, loc[p].now))
            /\ loc' = [loc EXCEPT ![p].wrote = @ \cup {"metadata"}]
            /\ StoreAdvance(p)
       ELSE /\ Finish(p, ErrIO, Dirty)
            /\ UNCHANGED <<files, loc>>
    /\ UNCHANGED <<dirs, clock, service, arg, pre>>

\* variant: store clears the data files of the name in every namespace
StoreRemoveData_EveryNamespace(p) ==
    /\ pc[p] = "s_rmdata"
    /\ files' = [f \in {g \in DOMAIN files :
                           g[Len(g)] # get_filename(arg[p].key[2], CACHE_FILENAME_POSTFIX)}
                  |-> files[f]]
    /\ StoreAdvance(p)
    /\ UNCHANGED <<dirs, clock, service, arg, loc, pre>>

\* let json = serde_json::to_string(item)?;
\* if file_path.exists() { fs::remove_file(&file_path)?; }
StoreRemoveData(p) ==
    /\ pc[p] = "s_rmdata"
    /\ IF ~ItemEncodes(arg[p].item)
       THEN /\ Finish(p, ErrEncoding, Dirty)
            /\ UNCHANGED files
       ELSE IF ~exists(FilePath(arg[p].key))
       THEN /\ StoreAdvance(p)
            /\ UNCHANGED files
       ELSE IF can_remove(FilePath(arg[p].key))
       THEN /\ files' = fs_remove_file(files, FilePath(arg[p].key))
            /\ StoreAdvance(p)
       ELSE /\ Finish(p, ErrIO, Dirty)
            /\ UNCHANGED files
    /\ UNCHANGED <<dirs, clock, service, arg, loc, pre>>

\* variant: the item is written to the metadata path
StoreWriteData_WrongPath(p) ==
    /\ pc[p] = "s_wdata"
    /\ files' = fs_write(files, MetadataPath(arg[p].key), ItemToJson(arg[p].item))
    /\ loc' = [loc EXCEPT ![p].wrote = @ \cup {"data"}]
    /\ StoreAdvance(p)
    /\ UNCHANGED <<dirs, clock, service, arg, pre>>

\* fs::write(&file_path, json)?; Ok(())
StoreWriteData(p) ==
    /\ pc[p] = "s_wdata"
    /\ IF can_write(FilePath(arg[p].key))
       THEN /\ files' = fs_write(files, FilePath(arg[p].key), ItemToJson(arg[p].item))
            /\ loc' = [loc EXCEPT ![p].wrote = @ \cup {"data"}]
            /\ StoreAdvance(p)
       ELSE /\ Finish(p, ErrIO, Dirty)
            /\ UNCHANGED <<files, loc>>
    /\ UNCHANGED <<dirs, clock, service, arg, pre>>

Store(p, K) ==
    \/ \E k \in K, item \in Values, ttl_secs \in Ttls : StoreCall(p, k, item, ttl_secs)
    \/ StoreCreateDir(p)
    \/ StoreClock(p)
    \/ StoreWriteMetadata(p)
    \/ StoreRemoveData(p)
    \/ StoreWriteData(p)

(* ----------------------- FileCacheService::get -------------------------- *)
\* if now_unixtime > metadata.created_unixtime {
\*     let diff_secs = now_unixtime - metadata.created_unixtime;
\*     if metadata.ttl_secs > 0 && (diff_secs > metadata.ttl_secs) { expired }
\* variant: the comparison with the ttl is the wrong way round
Expired_Reversed(now_unixtime, ttl_secs, created_unixtime) ==
    /\ now_unixtime > created_unixtime
    /\ ttl_secs > 0
    /\ (now_unixtime - created_unixtime) < ttl_secs

\* variant: ttl_secs = 0 is not exempted
Expired_NoZeroTtl(now_unixtime, ttl_secs, created_unixtime) ==
    /\ now_unixtime > created_unixtime
    /\ (now_unixtime - created_unixtime) > ttl_secs

\* variant: an entry expires when exactly ttl_secs have passed
Expired_AtBoundary(now_unixtime, ttl_secs, created_unixtime) ==
    /\ now_unixtime > created_unixtime
    /\ ttl_secs > 0
    /\ (now_unixtime - created_unixtime) >= ttl_secs

\* variant: no test of now > created, the distance between the two is compared
Expired_AbsDiff(now_unixtime, ttl_secs, created_unixtime) ==
    /\ ttl_secs > 0
    /\ (IF now_unixtime > created_unixtime
        THEN now_unixtime - created_unixtime
        ELSE created_unixtime - now_unixtime) > ttl_secs

Expired(now_unixtime, ttl_secs, created_unixtime) ==
    /\ now_unixtime > created_unixtime
    /\ ttl_secs > 0
    /\ (now_unixtime - created_unixtime) > ttl_secs

\* variant: get prepares the directory the way store does
GetCall_CreatesDir(p, k) ==
    /\ service
    /\ pc[p] = "idle"
    /\ pc' = [pc EXCEPT ![p] = "g_meta"]
    /\ arg' = [arg EXCEPT ![p] =
                 [op |-> "get", key |-> k, item |-> 0, ttl_secs |-> 0]]
    /\ pre' = [pre EXCEPT ![p] =
                 [files |-> files, dirs |-> dirs, hist |-> hist[k]]]
    /\ dirs' = create_dir_all(dirs, ItemDir(k))
    /\ UNCHANGED <<files, clock, service, loc, result, hist>>

GetCall(p, k) ==
    /\ service
    /\ pc[p] = "idle"
    /\ pc' = [pc EXCEPT ![p] = "g_meta"]
    /\ arg' = [arg EXCEPT ![p] =
                 [op |-> "get", key |-> k, item |-> 0, ttl_secs |-> 0]]
    /\ pre' = [pre EXCEPT ![p] =
                 [files |-> files, dirs |-> dirs, hist |-> hist[k]]]
    /\ UNCHANGED <<dirs, files, clock, service, loc, result, hist>>

\* if metadata_file_path.exists() { read_to_string; from_str::<FileCacheItemMetadata> }
GetReadMetadata(p) ==
    /\ pc[p] = "g_meta"
    /\ LET path == MetadataPath(arg[p].key)
       IN  IF ~exists(path)
           THEN /\ Goto(p, "g_orphan")
                /\ UNCHANGED loc
           ELSE IF path \notin DOMAIN files
           THEN /\ Finish(p, ErrIO, GetHist(p, ErrIO))
                /\ UNCHANGED loc
           ELSE IF MetadataDecodes(files[path])
           THEN /\ loc' = [loc EXCEPT
                             ![p].ttl_secs = MetadataFromJson(files[path]).ttl_secs,
                             ![p].created_unixtime =
                                 MetadataFromJson(files[path]).created_unixtime]
                /\ Goto(p, "g_clock")
           ELSE /\ Goto(p, "g_corrupt")
                /\ UNCHANGED loc
    /\ UNCHANGED <<dirs, files, clock, service, arg, pre>>

\* let now_unixtime = self.get_now_in_unixtime_secs()?; and the expiry test
GetClock(p) ==
    /\ pc[p] = "g_clock"
    /\ IF ClockOk
       THEN /\ loc' = [loc EXCEPT ![p].now = clock]
            /\ IF Expired(clock, loc[p].ttl_secs, loc[p].created_unixtime)
               THEN Goto(p, "g_expired")
               ELSE Goto(p, "g_data")
       ELSE /\ Finish(p, ErrDefault, GetHist(p, ErrDefault))
            /\ UNCHANGED loc
    /\ UNCHANGED <<dirs, files, clock, service, arg, pre>>

\* variant: the expired branch removes the data file only
GetExpiredRemoveData_Only(p) ==
    /\ pc[p] = "g_expired"
    /\ LET path == FilePath(arg[p].key)
       IN  IF ~exists(path)
           THEN /\ Finish(p, OkNone, GetHist(p, OkNone))
                /\ UNCHANGED files
           ELSE /\ files' = fs_remove_file(files, path)
                /\ Finish(p, OkNone, GetHist(p, OkNone))
    /\ UNCHANGED <<dirs, clock, service, arg, loc, pre>>

\* variant: the expired branch removes the metadata file and keeps the data
GetExpiredRemoveData_KeepsData(p) ==
    /\ pc[p] = "g_expired"
    /\ IF ~exists(FilePath(arg[p].key))
       THEN /\ Finish(p, OkNone, GetHist(p, OkNone))
            /\ UNCHANGED files
       ELSE /\ files' = fs_remove_file(files, MetadataPath(arg[p].key))
            /\ Finish(p, OkNone, GetHist(p, OkNone))
    /\ UNCHANGED <<dirs, clock, service, arg, loc, pre>>

\* variant: the expired branch removes the metadata file without a data file too
GetExpiredRemoveData_MetadataAnyway(p) ==
    /\ pc[p] = "g_expired"
    /\ files' = fs_remove_file(files, FilePath(arg[p].key))
    /\ Goto(p, "g_expired2")
    /\ UNCHANGED <<dirs, clock, service, arg, loc, pre>>

\* expired: if file_path.exists() { fs::remove_file(file_path)?; ... } return Ok(None)
GetExpiredRemoveData(p) ==
    /\ pc[p] = "g_expired"
    /\ LET path == FilePath(arg[p].key)
       IN  IF ~exists(path)
           THEN /\ Finish(p, OkNone, GetHist(p, OkNone))
                /\ UNCHANGED files
           ELSE IF can_remove(path)
           THEN /\ files' = fs_remove_file(files, path)
                /\ Goto(p, "g_expired2")
           ELSE /\ Finish(p, ErrIO, GetHist(p, ErrIO))
                /\ UNCHANGED files
    /\ UNCHANGED <<dirs, clock, service, arg, loc, pre>>

\* variant: the result of fs::remove_file(metadata_file_path) is dropped
GetExpiredRemoveMetadata_IgnoresError(p) ==
    /\ pc[p] = "g_expired2"
    /\ files' = fs_remove_file(files, MetadataPath(arg[p].key))
    /\ Finish(p, OkNone, GetHist(p, OkNone))
    /\ UNCHANGED <<dirs, clock, service, arg, loc, pre>>

\* expired: fs::remove_file(metadata_file_path)?; return Ok(None)
GetExpiredRemoveMetadata(p) ==
    /\ pc[p] = "g_expired2"
    /\ LET path == MetadataPath(arg[p].key)
       IN  IF can_remove(path)
           THEN /\ files' = fs_remove_file(files, path)
                /\ Finish(p, OkNone, GetHist(p, OkNone))
           ELSE /\ Finish(p, ErrIO, GetHist(p, ErrIO))
                /\ UNCHANGED files
    /\ UNCHANGED <<dirs, clock, service, arg, loc, pre>>

\* variant: a hit renews the entry (created_unixtime is set to the time of the get)
GetReadData_RenewsEntry(p) ==
    /\ pc[p] = "g_data"
    /\ LET path == FilePath(arg[p].key)
       IN  IF ~exists(path)
           THEN /\ Finish(p, OkNone, GetHist(p, OkNone))
                /\ UNCHANGED files
           ELSE IF ItemDecodes(files[path])
           THEN /\ files' = fs_write(files, MetadataPath(arg[p].key),
                                     MetadataToJson(loc[p].ttl_secs, loc[p].now))
                /\ Finish(p, OkSome(ItemFromJson(files[path])),
                          GetHist(p, OkSome(ItemFromJson(files[path]))))
           ELSE /\ Goto(p, "g_baddata")
                /\ UNCHANGED files
    /\ UNCHANGED <<dirs, clock, service, arg, loc, pre>>

\* if file_path.exists() { read_to_string; from_str::<T> } else { Ok(None) }
GetReadData(p) ==
    /\ pc[p] = "g_data"
    /\ LET path == FilePath(arg[p].key)
       IN  IF ~exists(path)
           THEN Finish(p, OkNone, GetHist(p, OkNone))
           ELSE IF path \notin DOMAIN files
           THEN Finish(p, ErrIO, GetHist(p, ErrIO))
           ELSE IF ItemDecodes(files[path])
           THEN Finish(p, OkSome(ItemFromJson(files[path])),
                       GetHist(p, OkSome(ItemFromJson(files[path]))))
           ELSE Goto(p, "g_baddata")
    /\ UNCHANGED <<dirs, files, clock, service, arg, loc, pre>>

\* variant: the corrupt data file is left and its metadata removed
GetBadDataRemoveData_Keep(p) ==
    /\ pc[p] = "g_baddata"
    /\ Goto(p, "g_baddata2")
    /\ UNCHANGED <<dirs, files, clock, service, arg, loc, pre>>

\* corrupt data: fs::remove_file(&file_path)?;
GetBadDataRemoveData(p) ==
    /\ pc[p] = "g_baddata"
    /\ LET path == FilePath(arg[p].key)
       IN  IF can_remove(path)
           THEN /\ files' = fs_remove_file(files, path)
                /\ Goto(p, "g_baddata2")
           ELSE /\ Finish(p, ErrIO, GetHist(p, ErrIO))
                /\ UNCHANGED files
    /\ UNCHANGED <<dirs, clock, service, arg, loc, pre>>

\* variant: the metadata of a corrupt data file is kept
GetBadDataRemoveMetadata_Skip(p) ==
    /\ pc[p] = "g_baddata2"
    /\ Finish(p, OkNone, GetHist(p, OkNone))
    /\ UNCHANGED <<dirs, files, clock, service, arg, loc, pre>>

\* corrupt data: fs::remove_file(&metadata_file_path)?; Ok(None)
GetBadDataRemoveMetadata(p) ==
    /\ pc[p] = "g_baddata2"
    /\ LET path == MetadataPath(arg[p].key)
       IN  IF can_remove(path)
           THEN /\ files' = fs_remove_file(files, path)
                /\ Finish(p, OkNone, GetHist(p, OkNone))
           ELSE /\ Finish(p, ErrIO, GetHist(p, ErrIO))
                /\ UNCHANGED files
    /\ UNCHANGED <<dirs, clock, service, arg, loc, pre>>

\* corrupt metadata: if file_path.exists() { fs::remove_file(&metadata_file_path)?; ... }
\* Ok(None)
GetCorruptRemoveMetadata(p) ==
    /\ pc[p] = "g_corrupt"
    /\ IF ~exists(FilePath(arg[p].key))
       THEN /\ Finish(p, OkNone, GetHist(p, OkNone))
            /\ UNCHANGED files
       ELSE IF can_remove(MetadataPath(arg[p].key))
       THEN /\ files' = fs_remove_file(files, MetadataPath(arg[p].key))
            /\ Goto(p, "g_corrupt2")
       ELSE /\ Finish(p, ErrIO, GetHist(p, ErrIO))
            /\ UNCHANGED files
    /\ UNCHANGED <<dirs, clock, service, arg, loc, pre>>

\* corrupt metadata: fs::remove_file(&file_path)?; Ok(None)
GetCorruptRemoveData(p) ==
    /\ pc[p] = "g_corrupt2"
    /\ LET path == FilePath(arg[p].key)
       IN  IF can_remove(path)
           THEN /\ files' = fs_remove_file(files, path)
                /\ Finish(p, OkNone, GetHist(p, OkNone))
           ELSE /\ Finish(p, ErrIO, GetHist(p, ErrIO))
                /\ UNCHANGED files
    /\ UNCHANGED <<dirs, clock, service, arg, loc, pre>>

\* variant: the orphan data file is reported as a miss and left in place
GetOrphanRemoveData_Keep(p) ==
    /\ pc[p] = "g_orphan"
    /\ Finish(p, OkNone, GetHist(p, OkNone))
    /\ UNCHANGED <<dirs, files, clock, service, arg, loc, pre>>

\* variant: fs::remove_file without the exists() test before it
GetOrphanRemoveData_Unchecked(p) ==
    /\ pc[p] = "g_orphan"
    /\ LET path == FilePath(arg[p].key)
       IN  IF can_remove(path)
           THEN /\ files' = fs_remove_file(files, path)
                /\ Finish(p, OkNone, GetHist(p, OkNone))
           ELSE /\ Finish(p, ErrIO, GetHist(p, ErrIO))
                /\ UNCHANGED files
    /\ UNCHANGED <<dirs, clock, service, arg, loc, pre>>

\* no metadata: if file_path.exists() { fs::remove_file(file_path)?; } Ok(None)
GetOrphanRemoveData(p) ==
    /\ pc[p] = "g_orphan"
    /\ LET path == FilePath(arg[p].key)
       IN  IF ~exists(path)
           THEN /\ Finish(p, OkNone, GetHist(p, OkNone))
                /\ UNCHANGED files
           ELSE IF can_remove(path)
           THEN /\ files' = fs_remove_file(files, path)
                /\ Finish(p, OkNone, GetHist(p, OkNone))
           ELSE /\ Finish(p, ErrIO, GetHist(p, ErrIO))
                /\ UNCHANGED files
    /\ UNCHANGED <<dirs, clock, service, arg, loc, pre>>

Get(p, K) ==
    \/ \E k \in K : GetCall(p, k)
    \/ GetReadMetadata(p)
    \/ GetClock(p)
    \/ GetExpiredRemoveData(p)
    \/ GetExpiredRemoveMetadata(p)
    \/ GetReadData(p)
    \/ GetBadDataRemoveData(p)
    \/ GetBadDataRemoveMetadata(p)
    \/ GetCorruptRemoveMetadata(p)
    \/ GetCorruptRemoveData(p)
    \/ GetOrphanRemoveData(p)

(* ------------- the files changed from outside the service -------------- *)
\* fs::remove_file(metadata_file).unwrap();
ExtRemoveMetadata(k) ==
    /\ AllIdle
    /\ MetadataPath(k) \in DOMAIN files
    /\ files' = fs_remove_file(files, MetadataPath(k))
    /\ hist' = [hist EXCEPT ![k] = Dirty]
    /\ UNCHANGED <<dirs, clock, service, pc, arg, loc, result, pre>>

\* fs::write(&metadata_item_path, "invalid-json-data").unwrap();
ExtCorruptMetadata(k) ==
    /\ AllIdle
    /\ can_write(MetadataPath(k))
    /\ files' = fs_write(files, MetadataPath(k), InvalidJson)
    /\ hist' = [hist EXCEPT ![k] = Dirty]
    /\ UNCHANGED <<dirs, clock, service, pc, arg, loc, result, pre>>

\* fs::write(&cache_item_path, "invalid-json-data").unwrap();
ExtCorruptData(k) ==
    /\ AllIdle
    /\ can_write(FilePath(k))
    /\ files' = fs_write(files, FilePath(k), InvalidJson)
    /\ hist' = [hist EXCEPT ![k] = Dirty]
    /\ UNCHANGED <<dirs, clock, service, pc, arg, loc, result, pre>>

Ext(K) ==
    \E k \in K : ExtRemoveMetadata(k) \/ ExtCorruptMetadata(k) \/ ExtCorruptData(k)

(* ------------------------- the process is killed ---------------------- *)
InFlight(p) == pc[p] \notin {"idle", "done", "crashed"}

\* the call stops between two of its steps; the files stay as they are
Crash(p) ==
    /\ InFlight(p)
    /\ pc' = [pc EXCEPT ![p] = "crashed"]
    /\ hist' = IF arg[p].op = "new"
               THEN hist
               ELSE [hist EXCEPT ![arg[p].key] =
                       IF arg[p].op = "get" /\ @.since = "never" THEN @ ELSE Dirty]
    /\ UNCHANGED <<dirs, files, clock, service, arg, loc, result, pre>>

\* a new process takes over
Restart(p) ==
    /\ pc[p] = "crashed"
    /\ pc' = [pc EXCEPT ![p] = "idle"]
    /\ arg' = [arg EXCEPT ![p] = NoArg]
    /\ loc' = [loc EXCEPT ![p] = NoLoc]
    /\ result' = [result EXCEPT ![p] = NoResult]
    /\ pre' = [pre EXCEPT ![p] = NoPre]
    /\ UNCHANGED <<dirs, files, clock, service, hist>>

(* --------------------------- specifications ---------------------------- *)
\* One caller, one call at a time (the service is single threaded), on one
\* key; every file system call and the clock succeed.
Next ==
    \/ New(Caller)
    \/ Tick
    \/ ClockBack
    \/ Store(Caller, {TheKey})
    \/ Get(Caller, {TheKey})
    \/ Return(Caller)
    \/ Ext({TheKey})

Spec == Init /\ [][Next]_vars

\* The same, and the process may be killed between any two steps of a call.
NextCrash ==
    \/ Next
    \/ Crash(Caller)
    \/ Restart(Caller)

SpecCrash == Init /\ [][NextCrash]_vars

\* the labels of get's branches for a corrupt metadata or data file
CorruptLabels == {"g_corrupt", "g_corrupt2", "g_baddata", "g_baddata2"}

\* get without the steps of the branches for corrupt files
GetIntact(p, K) ==
    \/ \E k \in K : GetCall(p, k)
    \/ GetReadMetadata(p)
    \/ GetClock(p)
    \/ GetExpiredRemoveData(p)
    \/ GetExpiredRemoveMetadata(p)
    \/ GetReadData(p)
    \/ GetOrphanRemoveData(p)

\* One caller, one call at a time, starting from an empty cache; nothing but
\* the service touches the files and no call is interrupted.  No file is ever
\* corrupt then, and get never enters a branch for corrupt files (part of
\* C11_LayoutInvariant), so the steps of those branches are left out.
NextClean ==
    \/ New(Caller)
    \/ Tick
    \/ ClockBack
    \/ Store(Caller, {TheKey})
    \/ GetIntact(Caller, {TheKey})
    \/ Return(Caller)

SpecClean == Init /\ [][NextClean]_vars

(* ----------------------- failing file removals ------------------------ *)
\* a directory is made at the path of the data file: Path::exists is true of it
\* and fs::remove_file fails on it
FaultDirAtData(k) ==
    /\ AllIdle
    /\ can_write(FilePath(k))
    /\ FilePath(k) \notin DOMAIN files
    /\ dirs' = dirs \cup {FilePath(k)}
    /\ hist' = [hist EXCEPT ![k] = Dirty]
    /\ UNCHANGED <<files, clock, service, pc, arg, loc, result, pre>>

\* another process removes a file of the key while the get of p is at work:
\* the fs::remove_file of a file that was there a step before fails
FaultRemoveFile(p) ==
    /\ arg[p].op = "get"
    /\ InFlight(p)
    /\ \E path \in {FilePath(arg[p].key), MetadataPath(arg[p].key)} :
           /\ path \in DOMAIN files
           /\ files' = fs_remove_file(files, path)
    /\ hist' = [hist EXCEPT ![arg[p].key] = Dirty]
    /\ UNCHANGED <<dirs, clock, service, pc, arg, loc, result, pre>>

\* One caller on one key, with files corrupted from outside between calls, and
\* with file removals that fail.
NextFault ==
    \/ New(Caller)
    \/ Tick
    \/ Store(Caller, {TheKey})
    \/ Get(Caller, {TheKey})
    \/ Return(Caller)
    \/ Ext({TheKey})
    \/ FaultDirAtData(TheKey)
    \/ FaultRemoveFile(Caller)

SpecFault == Init /\ [][NextFault]_vars

(* --------------------------- failing stores --------------------------- *)
\* the system clock is set before the epoch: duration_since(UNIX_EPOCH) fails
FaultClockBeforeEpoch ==
    /\ clock >= 0
    /\ clock' = -1
    /\ UNCHANGED <<dirs, files, service, pc, arg, loc, result, pre, hist>>

\* One caller stores on one key; the clock can be before the epoch, the item
\* can be one that does not encode, and a directory can be in the place of the
\* data file, so that its removal fails.
NextStoreFault ==
    \/ New(Caller)
    \/ Tick
    \/ Store(Caller, {TheKey})
    \/ \E ttl_secs \in Ttls : StoreCall(Caller, TheKey, Unencodable, ttl_secs)
    \/ Return(Caller)
    \/ FaultDirAtData(TheKey)
    \/ FaultClockBeforeEpoch

SpecStoreFault == Init /\ [][NextStoreFault]_vars

\* Two callers share the service, each with its own key, and their calls run
\* at the same time: the steps of the two calls interleave in every order.
\* Each caller stores one item with one ttl, so that the state space stays
\* small; nothing but the service touches the files.
OtherCaller == "p2"
OtherKey == <<"n2", "a">>
KeyOf(p) == IF p = Caller THEN TheKey ELSE OtherKey
ItemOf(p) == IF p = Caller THEN 1 ELSE 2
TtlOf(p) == 1

StoreSteps(p) ==
    \/ StoreCreateDir(p)
    \/ StoreClock(p)
    \/ StoreWriteMetadata(p)
    \/ StoreRemoveData(p)
    \/ StoreWriteData(p)

CallerTwo(p) ==
    \/ StoreCall(p, KeyOf(p), ItemOf(p), TtlOf(p))
    \/ StoreSteps(p)
    \/ GetIntact(p, {KeyOf(p)})
    \/ Return(p)

NextTwo ==
    \/ New(Caller)
    \/ Tick
    \/ CallerTwo(Caller)
    \/ CallerTwo(OtherCaller)

SpecTwo == Init /\ [][NextTwo]_vars

\* The path derivation alone: two callers hold a (namespace, name) each, of
\* identifiers without a path separator (so that each is one component of the
\* path), and derive the paths of the two files as store and get do.
PathNamespaces == {"n1", "n2"}
PathNames == {"a", "a-cache", "a-cache-metadata", "a-metadata", "a-cache.json"}
PathKeys == {<<ns, n>> : ns \in PathNamespaces, n \in PathNames}

InitPaths ==
    /\ dirs = {}
    /\ files = <<>>
    /\ clock = 0
    /\ service = TRUE
    /\ pc = [p \in Procs |-> "idle"]
    /\ arg \in [Procs -> {[NoArg EXCEPT !.op = "paths", !.key = k] : k \in PathKeys}]
    /\ loc = [p \in Procs |-> NoLoc]
    /\ result = [p \in Procs |-> NoResult]
    /\ pre = [p \in Procs |-> NoPre]
    /\ hist = [k \in Keys |-> NoHist]

\* let metadata_file_path = ..; let file_path = ..; (the head of store and of get)
DerivePaths(p) ==
    /\ pc[p] = "idle"
    /\ arg[p].op = "paths"
    /\ pc' = [pc EXCEPT ![p] = "done"]
    /\ result' = [result EXCEPT ![p] =
                    [tag |-> "Paths",
                     file_path |-> FilePath(arg[p].key),
                     metadata_file_path |-> MetadataPath(arg[p].key)]]
    /\ UNCHANGED <<dirs, files, clock, service, arg, loc, pre, hist>>

NextPaths == DerivePaths(Caller) \/ DerivePaths(OtherCaller)

SpecPaths == InitPaths /\ [][NextPaths]_vars

(* ============================== properties ============================= *)
Key(p) == arg[p].key
GetDone(p) == pc[p] = "done" /\ arg[p].op = "get"
StoreDone(p) == pc[p] = "done" /\ arg[p].op = "store"

\* the two files of the caller's key, before the call and now
HadMetadata(p) == MetadataPath(Key(p)) \in DOMAIN pre[p].files
HadData(p) == FilePath(Key(p)) \in DOMAIN pre[p].files
HasMetadata(p) == MetadataPath(Key(p)) \in DOMAIN files
HasData(p) == FilePath(Key(p)) \in DOMAIN files
OldMetadata(p) == pre[p].files[MetadataPath(Key(p))]
OldData(p) == pre[p].files[FilePath(Key(p))]

\* the seconds between the clock reading of the last store and that of this get
Elapsed(p) == loc[p].now - pre[p].hist.at

\* the files in the directory of the caller's key
FilesInDir(p) == {f \in DOMAIN files : SubSeq(f, 1, Len(f) - 1) = ItemDir(Key(p))}

\* C1 (round trip): a get that follows a successful store of v on its key, with
\* nothing but hits on the key in between, returns Some(v) when the ttl is 0 or
\* fewer than ttl seconds passed between the store's and the get's clock reading.
C1_RoundTrip ==
    \A p \in Procs :
        (/\ GetDone(p)
         /\ pre[p].hist.since = "stored"
         /\ (pre[p].hist.ttl_secs = 0 \/ Elapsed(p) < pre[p].hist.ttl_secs))
        => result[p] = OkSome(pre[p].hist.item)

C1_Witness ==
    \E p \in Procs :
        /\ GetDone(p)
        /\ pre[p].hist.since = "stored"
        /\ Elapsed(p) > 0
        /\ Elapsed(p) < pre[p].hist.ttl_secs
        /\ result[p] = OkSome(pre[p].hist.item)

\* C2 (expiry): a get that finds decodable metadata with ttl_secs > 0 and a data
\* file, at a time with now - created_unixtime > ttl_secs, returns None and leaves
\* neither the data file nor the metadata file.
C2_Expiry ==
    \A p \in Procs :
        (/\ GetDone(p)
         /\ HadMetadata(p) /\ HadData(p)
         /\ MetadataDecodes(OldMetadata(p))
         /\ MetadataFromJson(OldMetadata(p)).ttl_secs > 0
         /\ loc[p].now - MetadataFromJson(OldMetadata(p)).created_unixtime
                > MetadataFromJson(OldMetadata(p)).ttl_secs)
        => /\ result[p] = OkNone
           /\ ~HasMetadata(p)
           /\ ~HasData(p)

C2_Witness ==
    \E p \in Procs :
        /\ GetDone(p)
        /\ pre[p].hist.since = "stored"
        /\ pre[p].hist.ttl_secs > 0
        /\ HadMetadata(p) /\ HadData(p)
        /\ Elapsed(p) > pre[p].hist.ttl_secs
        /\ result[p] = OkNone
        /\ ~HasMetadata(p) /\ ~HasData(p)

\* C3 (immortal): a get on a key whose last store had ttl_secs = 0, with nothing
\* but hits on the key since, returns Some(v) at every clock value and leaves the
\* files as they were.
C3_Immortal ==
    \A p \in Procs :
        (/\ GetDone(p)
         /\ pre[p].hist.since = "stored"
         /\ pre[p].hist.ttl_secs = 0)
        => /\ result[p] = OkSome(pre[p].hist.item)
           /\ HasMetadata(p) /\ HasData(p)
           /\ files = pre[p].files

C3_Witness ==
    \E p \in Procs :
        /\ GetDone(p)
        /\ pre[p].hist.since = "stored"
        /\ pre[p].hist.ttl_secs = 0
        /\ Elapsed(p) > MaxTtl
        /\ result[p] = OkSome(pre[p].hist.item)

\* C4 (overwrite): when a store succeeds on a key that holds an earlier store,
\* the directory of the key holds exactly its data file and its metadata file;
\* and an unexpired get after two stores returns the second value.
C4_Overwrite ==
    \A p \in Procs :
        /\ (StoreDone(p) /\ result[p] = OkUnit /\ pre[p].hist.since = "stored")
           => /\ FilesInDir(p) = {FilePath(Key(p)), MetadataPath(Key(p))}
              /\ Cardinality(FilesInDir(p)) = 2
        /\ (/\ GetDone(p)
            /\ pre[p].hist.since = "stored"
            /\ pre[p].hist.prev # 0
            /\ (pre[p].hist.ttl_secs = 0 \/ Elapsed(p) <= pre[p].hist.ttl_secs))
           => /\ result[p] = OkSome(pre[p].hist.item)
              /\ (pre[p].hist.prev # pre[p].hist.item
                    => result[p] # OkSome(pre[p].hist.prev))

C4_Witness ==
    \E p \in Procs :
        /\ GetDone(p)
        /\ pre[p].hist.since = "stored"
        /\ pre[p].hist.prev # 0
        /\ pre[p].hist.prev # pre[p].hist.item
        /\ result[p] = OkSome(pre[p].hist.item)
        /\ Cardinality(FilesInDir(p)) = 2

\* C5 (miss on unknown key): a get on a key that was never stored returns None
\* and the files and directories are the same after the call as before it.
C5_MissUnknown ==
    \A p \in Procs :
        (GetDone(p) /\ pre[p].hist.since = "never")
        => /\ result[p] = OkNone
           /\ files = pre[p].files
           /\ dirs = pre[p].dirs

C5_Witness ==
    \E p \in Procs :
        /\ GetDone(p)
        /\ pre[p].hist.since = "never"
        /\ result[p] = OkNone
        /\ ItemDir(Key(p)) \notin dirs

\* C6 (orphan cleanup): a get that finds no metadata file and a data file
\* returns None and the data file is gone after it.
C6_OrphanCleanup ==
    \A p \in Procs :
        (GetDone(p) /\ ~HadMetadata(p) /\ HadData(p))
        => /\ result[p] = OkNone
           /\ ~HasData(p)

C6_Witness ==
    \E p \in Procs :
        /\ GetDone(p)
        /\ ~HadMetadata(p) /\ HadData(p)
        /\ ItemDecodes(OldData(p))
        /\ result[p] = OkNone
        /\ ~HasData(p)

\* C7 (corrupt metadata cleanup): a get that finds a metadata file that does not
\* decode returns None and leaves neither the metadata file nor the data file,
\* whether or not there was a data file.
C7_CorruptMetadataCleanup ==
    \A p \in Procs :
        (GetDone(p) /\ HadMetadata(p) /\ ~MetadataDecodes(OldMetadata(p)))
        => /\ result[p] = OkNone
           /\ ~HasMetadata(p)
           /\ ~HasData(p)

\* C8 (corrupt data cleanup): a get that finds decodable, unexpired metadata and
\* a data file that does not decode returns None and leaves neither file.
C8_CorruptDataCleanup ==
    \A p \in Procs :
        (/\ GetDone(p)
         /\ HadMetadata(p) /\ HadData(p)
         /\ MetadataDecodes(OldMetadata(p))
         /\ \/ MetadataFromJson(OldMetadata(p)).ttl_secs = 0
            \/ loc[p].now - MetadataFromJson(OldMetadata(p)).created_unixtime
                   <= MetadataFromJson(OldMetadata(p)).ttl_secs
         /\ ~ItemDecodes(OldData(p)))
        => /\ result[p] = OkNone
           /\ ~HasMetadata(p)
           /\ ~HasData(p)

C8_Witness ==
    \E p \in Procs :
        /\ GetDone(p)
        /\ HadMetadata(p) /\ HadData(p)
        /\ MetadataDecodes(OldMetadata(p))
        /\ MetadataFromJson(OldMetadata(p)).ttl_secs > 0
        /\ loc[p].now > MetadataFromJson(OldMetadata(p)).created_unixtime
        /\ loc[p].now - MetadataFromJson(OldMetadata(p)).created_unixtime
               <= MetadataFromJson(OldMetadata(p)).ttl_secs
        /\ ~ItemDecodes(OldData(p))
        /\ result[p] = OkNone
        /\ ~HasMetadata(p) /\ ~HasData(p)

\* C9 (no error for absence, expiry or corruption): when the file system calls
\* and the clock succeed, get returns Ok(Some) or Ok(None), whatever the state of
\* the metadata file (absent, corrupt, expired, unexpired) and of the data file
\* (absent, corrupt, valid); interrupted calls make every combination occur.
C9_GetNeverErr ==
    \A p \in Procs :
        GetDone(p) => result[p].tag \in {"Some", "None"}

C9_Witness ==
    \E p \in Procs :
        /\ GetDone(p)
        /\ HadMetadata(p) /\ MetadataDecodes(OldMetadata(p))
        /\ Expired(loc[p].now, MetadataFromJson(OldMetadata(p)).ttl_secs,
                   MetadataFromJson(OldMetadata(p)).created_unixtime)
        /\ ~HadData(p)
        /\ result[p] = OkNone

\* the points at which a store can be interrupted, and the states an
\* interruption leaves
StorePoint(p) == arg[p].op = "store" /\ pc[p] # "idle"

FreshMetadata(p) ==
    /\ "metadata" \in loc[p].wrote
    /\ HasMetadata(p)
    /\ files[MetadataPath(Key(p))] = MetadataToJson(arg[p].ttl_secs, loc[p].now)

NoData(p) == ~HasData(p)

StaleData(p) ==
    /\ "data" \notin loc[p].wrote
    /\ HasData(p) /\ HadData(p)
    /\ files[FilePath(Key(p))] = OldData(p)

FreshData(p) ==
    /\ "data" \in loc[p].wrote
    /\ HasData(p)
    /\ files[FilePath(Key(p))] = ItemToJson(arg[p].item)

Untouched(p) == loc[p].wrote = {} /\ files = pre[p].files

\* C10 as stated (store write order under crash): at every point where store
\* can be interrupted the key has fresh metadata with no data file, with the
\* previous data file or with the fresh data file.
C10_AlwaysFreshMetadata ==
    \A p \in Procs :
        StorePoint(p) => /\ FreshMetadata(p)
                         /\ (NoData(p) \/ StaleData(p) \/ FreshData(p))

\* C10 as amended: at every point where store can be interrupted the key has
\* the files it had before the call (the metadata is not written yet), or fresh
\* metadata with no data file, with the previous data file or with the fresh
\* data file; the fresh data file is never there without the fresh metadata.
C10_StoreWriteOrder ==
    \A p \in Procs :
        StorePoint(p) =>
            /\ \/ Untouched(p)
               \/ /\ FreshMetadata(p)
                  /\ (NoData(p) \/ StaleData(p) \/ FreshData(p))
            /\ ("data" \in loc[p].wrote => FreshMetadata(p))

C10_Witness ==
    \E p \in Procs :
        /\ pc[p] = "crashed"
        /\ arg[p].op = "store"
        /\ FreshMetadata(p)
        /\ StaleData(p)
        /\ OldData(p) # ItemToJson(arg[p].item)
        /\ HadMetadata(p)
        /\ OldMetadata(p) # files[MetadataPath(Key(p))]

\* no call is in progress
BetweenCalls == \A p \in Procs : pc[p] \in {"idle", "done"}

\* C11 (on-disk layout): starting from an empty cache, after any sequence of
\* store and get calls that ran to completion, with no change of the files from
\* outside, every key whose data file exists has its metadata file.
C11_LayoutInvariant ==
    /\ \A p \in Procs : pc[p] \notin CorruptLabels
    /\ BetweenCalls =>
           \A k \in Keys :
               FilePath(k) \in DOMAIN files => MetadataPath(k) \in DOMAIN files

\* a get has just removed an expired entry that an earlier call had stored
C11_Witness ==
    \E p \in Procs :
        /\ GetDone(p)
        /\ HadData(p) /\ HadMetadata(p)
        /\ result[p] = OkNone
        /\ ~HasData(p) /\ ~HasMetadata(p)

NewDone(p) == pc[p] = "done" /\ arg[p].op = "new"

\* C12 (directory bootstrap): new on a root path that does not exist creates
\* the directory and returns a service; on a root path that exists it returns a
\* service and changes nothing on disk.
C12_DirectoryBootstrap ==
    \A p \in Procs :
        NewDone(p) =>
            /\ result[p] = OkUnit
            /\ service
            /\ RootPath \in dirs
            /\ files = pre[p].files
            /\ (RootPath \in pre[p].dirs => dirs = pre[p].dirs)
            /\ (RootPath \notin pre[p].dirs => dirs = pre[p].dirs \cup {RootPath})

\* new has just created a root directory that did not exist
C12_Witness ==
    \E p \in Procs :
        /\ NewDone(p)
        /\ RootPath \notin pre[p].dirs
        /\ RootPath \in dirs
        /\ service

\* what the metadata file held when the call started
OldTtl(p) == MetadataFromJson(OldMetadata(p)).ttl_secs
OldCreated(p) == MetadataFromJson(OldMetadata(p)).created_unixtime

\* the get found a metadata file and a data file that both decode
FoundValidEntry(p) ==
    /\ GetDone(p)
    /\ HadMetadata(p) /\ MetadataDecodes(OldMetadata(p))
    /\ HadData(p) /\ ItemDecodes(OldData(p))

\* C13 (exact expiry predicate): with valid metadata and a valid data file, get
\* removes the entry and returns None if and only if now > created_unixtime and
\* ttl_secs > 0 and now - created_unixtime > ttl_secs; otherwise, and so at
\* now - created_unixtime = ttl_secs, it returns Some(v) and changes nothing.
C13_ExactExpiry ==
    \A p \in Procs :
        FoundValidEntry(p) =>
            IF /\ loc[p].now > OldCreated(p)
               /\ OldTtl(p) > 0
               /\ loc[p].now - OldCreated(p) > OldTtl(p)
            THEN /\ result[p] = OkNone
                 /\ ~HasData(p) /\ ~HasMetadata(p)
            ELSE /\ result[p] = OkSome(ItemFromJson(OldData(p)))
                 /\ files = pre[p].files

\* a hit at the boundary now - created_unixtime = ttl_secs
C13_Witness ==
    \E p \in Procs :
        /\ FoundValidEntry(p)
        /\ OldTtl(p) > 0
        /\ loc[p].now - OldCreated(p) = OldTtl(p)
        /\ result[p] = OkSome(ItemFromJson(OldData(p)))

\* C14 (clock moved backward): when now <= created_unixtime at the get, the
\* entry is not expired whatever ttl_secs is: with a valid data file get returns
\* Some(v) and deletes nothing (and with no data file it deletes nothing either).
C14_ClockBackward ==
    \A p \in Procs :
        (/\ GetDone(p)
         /\ HadMetadata(p) /\ MetadataDecodes(OldMetadata(p))
         /\ loc[p].now <= OldCreated(p))
        => /\ (HadData(p) /\ ItemDecodes(OldData(p)))
                => /\ result[p] = OkSome(ItemFromJson(OldData(p)))
                   /\ files = pre[p].files
           /\ ~HadData(p) => (result[p] = OkNone /\ files = pre[p].files)

\* a hit with ttl_secs > 0 at a clock reading before the creation time
C14_Witness ==
    \E p \in Procs :
        /\ FoundValidEntry(p)
        /\ OldTtl(p) > 0
        /\ loc[p].now < OldCreated(p)
        /\ result[p] = OkSome(ItemFromJson(OldData(p)))
        /\ files = pre[p].files

\* C15 (metadata without data): a get that finds decodable metadata and no data
\* file returns None and leaves the files and directories as they were, expired
\* or not; the metadata file is still there after the call.
C15_MetadataWithoutData ==
    \A p \in Procs :
        (/\ GetDone(p)
         /\ HadMetadata(p) /\ MetadataDecodes(OldMetadata(p))
         /\ ~HadData(p))
        => /\ result[p] = OkNone
           /\ files = pre[p].files
           /\ dirs = pre[p].dirs
           /\ HasMetadata(p)

\* the expired case: a store was interrupted after its metadata write, on a key
\* without a data file, and the get comes after the ttl
C15_Witness ==
    \E p \in Procs :
        /\ GetDone(p)
        /\ HadMetadata(p) /\ MetadataDecodes(OldMetadata(p))
        /\ ~HadData(p)
        /\ OldTtl(p) > 0
        /\ loc[p].now - OldCreated(p) > OldTtl(p)
        /\ result[p] = OkNone
        /\ HasMetadata(p)

\* the get follows a second or later store on its key
AfterSecondStore(p) ==
    /\ GetDone(p)
    /\ pre[p].hist.since = "stored"
    /\ pre[p].hist.prev # 0

\* C16 (store resets the expiry record): after a successful store the metadata
\* file of the key holds the ttl_secs of this call and the clock reading of this
\* call; and a get after a second store finds that record and is decided by it
\* alone: Some(v) when the second ttl_secs is 0 or no more than ttl_secs seconds
\* passed since the second store, None when more passed.
C16_StoreResetsExpiry ==
    \A p \in Procs :
        /\ (StoreDone(p) /\ result[p] = OkUnit)
           => /\ HasMetadata(p)
              /\ MetadataDecodes(files[MetadataPath(Key(p))])
              /\ MetadataFromJson(files[MetadataPath(Key(p))]) =
                     [ttl_secs |-> arg[p].ttl_secs, created_unixtime |-> loc[p].now]
        /\ AfterSecondStore(p)
           => /\ HadMetadata(p)
              /\ OldMetadata(p) = MetadataToJson(pre[p].hist.ttl_secs, pre[p].hist.at)
              /\ pre[p].hist.ttl_secs = 0 => result[p] = OkSome(pre[p].hist.item)
              /\ (pre[p].hist.ttl_secs > 0 /\ Elapsed(p) <= pre[p].hist.ttl_secs)
                    => result[p] = OkSome(pre[p].hist.item)
              /\ (pre[p].hist.ttl_secs > 0 /\ Elapsed(p) > pre[p].hist.ttl_secs)
                    => result[p] = OkNone

\* a store with ttl 0 has replaced the record of a store with a ttl that had
\* run out
C16_Witness ==
    \E p \in Procs :
        /\ StoreDone(p) /\ result[p] = OkUnit
        /\ pre[p].hist.since = "stored"
        /\ pre[p].hist.ttl_secs > 0
        /\ loc[p].now - pre[p].hist.at > pre[p].hist.ttl_secs
        /\ HadMetadata(p)
        /\ OldMetadata(p) = MetadataToJson(pre[p].hist.ttl_secs, pre[p].hist.at)
        /\ arg[p].ttl_secs = 0
        /\ files[MetadataPath(Key(p))] = MetadataToJson(0, loc[p].now)

\* a get has been called and its result is not taken yet: it is at one of its
\* steps, has returned, or was interrupted
GetPoint(p) == arg[p].op = "get" /\ pc[p] # "idle"

\* the files of the caller's key
OwnPaths(p) == {FilePath(Key(p)), MetadataPath(Key(p))}

\* C17 (get never writes): from the call of a get on, the directories are those
\* of before the call, every file there is was there before the call with the
\* same content, and the only files missing are the data file and the metadata
\* file of the requested key; when the get returns Some(v) the files and
\* directories are those of before the call.
C17_GetNeverWrites ==
    \A p \in Procs :
        /\ GetPoint(p)
           => /\ dirs = pre[p].dirs
              /\ \A f \in DOMAIN files :
                     f \in DOMAIN pre[p].files /\ files[f] = pre[p].files[f]
              /\ (DOMAIN pre[p].files \ DOMAIN files) \subseteq OwnPaths(p)
        /\ (GetDone(p) /\ result[p].tag = "Some")
           => (files = pre[p].files /\ dirs = pre[p].dirs)

\* a get has deleted the two files of its key, which held an entry that was
\* past its ttl
C17_Witness ==
    \E p \in Procs :
        /\ GetDone(p)
        /\ FoundValidEntry(p)
        /\ result[p] = OkNone
        /\ DOMAIN pre[p].files \ DOMAIN files = OwnPaths(p)
        /\ dirs = pre[p].dirs

\* the files of key k among the files fl
OwnFiles(fl, k) ==
    [f \in DOMAIN fl \cap {FilePath(k), MetadataPath(k)} |-> fl[f]]

\* what a get of k returns and leaves of the files own of k when it runs alone
\* and reads the clock at now (the outcomes of C2, C5 to C9, C13 and C15)
GetAlone(own, k, now) ==
    LET m == MetadataPath(k)
        d == FilePath(k)
        hasData == d \in DOMAIN own
        none == [result |-> OkNone, files |-> <<>>]
        asis(res) == [result |-> res, files |-> own]
    IN  IF m \notin DOMAIN own THEN none
        ELSE IF ~MetadataDecodes(own[m]) THEN (IF hasData THEN none ELSE asis(OkNone))
        ELSE IF Expired(now, MetadataFromJson(own[m]).ttl_secs,
                        MetadataFromJson(own[m]).created_unixtime)
             THEN (IF hasData THEN none ELSE asis(OkNone))
        ELSE IF ~hasData THEN asis(OkNone)
        ELSE IF ItemDecodes(own[d]) THEN asis(OkSome(ItemFromJson(own[d])))
        ELSE none

\* what a store leaves of the files of k when it runs alone
StoreAlone(k, item, ttl_secs, now) ==
    fs_write(fs_write(<<>>, MetadataPath(k), MetadataToJson(ttl_secs, now)),
             FilePath(k), ItemToJson(item))

\* a call that has returned gave the result, and left of the files of its key
\* what it leaves when it runs alone on the files its key had at the call
SameAsAlone(p) ==
    /\ GetDone(p)
       => LET alone == GetAlone(OwnFiles(pre[p].files, Key(p)), Key(p), loc[p].now)
          IN  /\ result[p] = alone.result
              /\ OwnFiles(files, Key(p)) = alone.files
    /\ StoreDone(p)
       => /\ result[p] = OkUnit
          /\ OwnFiles(files, Key(p)) =
                 StoreAlone(Key(p), arg[p].item, arg[p].ttl_secs, loc[p].now)

\* a step that is not a step of p leaves the files of the key of p as they are
OthersKeepOff(p) ==
    pc'[p] = pc[p] => OwnFiles(files', KeyOf(p)) = OwnFiles(files, KeyOf(p))

\* C18 (key isolation): with two callers on two keys whose calls interleave step
\* by step, no step of one caller creates, changes or deletes the data file or
\* the metadata file of the other caller's key, and every call returns the
\* result, and leaves the files of its key, as if it had run alone.
C18_KeyIsolation ==
    /\ [][\A p \in Procs : OthersKeepOff(p)]_vars
    /\ [](\A p \in Procs : SameAsAlone(p))

\* the first caller's get has removed its expired entry while the other caller is
\* in the middle of a store, whose metadata is written and whose data is not
C18_Witness ==
    /\ GetDone(Caller)
    /\ HadMetadata(Caller) /\ HadData(Caller)
    /\ result[Caller] = OkNone
    /\ OwnFiles(files, TheKey) = <<>>
    /\ arg[OtherCaller].op = "store"
    /\ pc[OtherCaller] = "s_rmdata"
    /\ MetadataPath(OtherKey) \notin DOMAIN pre[Caller].files
    /\ MetadataPath(OtherKey) \in DOMAIN files

PathsDone(p) == pc[p] = "done" /\ arg[p].op = "paths"

\* C19 (path derivation is injective): the paths derived for two distinct
\* (namespace, name) pairs have distinct data paths and distinct metadata paths,
\* and the data path of a pair is the metadata path of no pair, itself included.
C19_PathsInjective ==
    \A p, q \in Procs :
        (PathsDone(p) /\ PathsDone(q))
        => /\ Key(p) # Key(q)
                => /\ result[p].file_path # result[q].file_path
                   /\ result[p].metadata_file_path # result[q].metadata_file_path
           /\ result[p].file_path # result[q].metadata_file_path

\* the two names are "a" and "a-cache" in one namespace
C19_Witness ==
    /\ PathsDone(Caller) /\ PathsDone(OtherCaller)
    /\ Key(Caller) = <<"n1", "a">>
    /\ Key(OtherCaller) = <<"n1", "a-cache">>
    /\ result[Caller].file_path = <<"cache", "app", "n1", "a-cache.json">>
    /\ result[OtherCaller].file_path = <<"cache", "app", "n1", "a-cache-cache.json">>
    /\ result[Caller].metadata_file_path = <<"cache", "app", "n1", "a-cache-metadata.json">>

\* the get of p is at a fs::remove_file of one of its cleanup branches, the file
\* is to be removed, and the removal cannot succeed
RemovalFails(p) ==
    LET d == FilePath(arg[p].key)
        m == MetadataPath(arg[p].key)
    IN  \/ pc[p] \in {"g_orphan", "g_expired"} /\ exists(d) /\ ~can_remove(d)
        \/ pc[p] \in {"g_expired2", "g_baddata2"} /\ ~can_remove(m)
        \/ pc[p] \in {"g_baddata", "g_corrupt2"} /\ ~can_remove(d)
        \/ pc[p] = "g_corrupt" /\ exists(d) /\ ~can_remove(m)

\* C20 (cleanup failures are not swallowed): when a file removal of a cleanup
\* branch of get fails (orphan data file, corrupt metadata, expired entry,
\* corrupt data), the step of the get ends the call with an I/O error, and so
\* not with Ok(None), and removes nothing.
C20_CleanupFailurePropagates ==
    [][\A p \in Procs :
          (RemovalFails(p) /\ pc'[p] # pc[p])
          => /\ pc'[p] = "done"
             /\ result'[p] = ErrIO
             /\ files' = files]_vars

\* the get found no metadata and a directory at the path of the data file: the
\* removal of the orphan failed and the get returned the I/O error
C20_Witness ==
    \E p \in Procs :
        /\ GetDone(p)
        /\ ~HadMetadata(p) /\ ~HasMetadata(p)
        /\ FilePath(Key(p)) \in pre[p].dirs
        /\ FilePath(Key(p)) \in dirs
        /\ result[p] = ErrIO

\* C21 (a miss is sticky): when a get returns None the data file of its key is
\* not there after the call; and a get on a key whose last event was a get that
\* returned None (no store, and no change of the files from outside, since)
\* finds no data file and returns None, at every clock value.
C21_StickyMiss ==
    \A p \in Procs :
        /\ (GetDone(p) /\ result[p] = OkNone) => ~HasData(p)
        /\ (GetDone(p) /\ pre[p].hist.since = "missed")
           => (~HadData(p) /\ result[p] = OkNone)

\* the miss left a metadata file that decodes and never expires, and the clock
\* of the later get is behind the creation time
C21_Witness ==
    \E p \in Procs :
        /\ GetDone(p)
        /\ pre[p].hist.since = "missed"
        /\ HadMetadata(p) /\ MetadataDecodes(OldMetadata(p))
        /\ OldTtl(p) = 0
        /\ loc[p].now < OldCreated(p)
        /\ result[p] = OkNone

\* the get of p has done the first of two removals of a cleanup branch and not
\* the second: it is at the second, or was interrupted before it
BetweenRemovals(p) ==
    /\ arg[p].op = "get"
    /\ \/ pc[p] \in {"g_expired2", "g_baddata2", "g_corrupt2"}
       \/ pc[p] = "crashed" /\ DOMAIN files # DOMAIN pre[p].files

\* C22 (get cleanup order under crash): between the two removals of a cleanup
\* branch of get (expired entry, corrupt data, corrupt metadata), and so after
\* an interruption there, the data file is not on disk without its metadata
\* file.
C22_GetCleanupOrder ==
    \A p \in Procs :
        BetweenRemovals(p) => (HasData(p) => HasMetadata(p))

\* the store of p has returned an error
StoreFailed(p) ==
    StoreDone(p) /\ result[p] \in {ErrIO, ErrDefault, ErrEncoding}

\* C23 (a failed store leaves the entry as it was): when store returns an error
\* the metadata file and the data file of the key are those of before the call.
C23_FailedStoreKeepsEntry ==
    \A p \in Procs :
        StoreFailed(p) => OwnFiles(files, Key(p)) = OwnFiles(pre[p].files, Key(p))

====
